---- MODULE Spec2Model ----
(***************************************************************************)
(* go-gitops-app: the request pipeline (Recovery -> Logging -> handler),   *)
(* the /stress parameter validation and the multi-worker load generator.   *)
(*                                                                         *)
(* Strings that the code parses are sequences of one-character strings,    *)
(* time.Duration values are integers in milliseconds, and the wall clock   *)
(* is an integer number of seconds.                                        *)
(***************************************************************************)
EXTENDS Integers, Sequences, FiniteSets, TLC

(***************************************************************************)
(* Bounds of the model.                                                    *)
(***************************************************************************)
\* request slots that may be in flight together
MaxReqs == 2
\* the clock is free to run up to here while no worker needs it to advance
MaxTime == 1
\* the core counts runtime.NumCPU() is taken to report
CPUs == {1, 2}

(***************************************************************************)
(* Program constants (handlers).                                           *)
(***************************************************************************)
\* defaultStressDuration = 2 * time.Second, in milliseconds
defaultStressDuration == 2000
\* maxStressDuration = 30 * time.Second, in milliseconds
maxStressDuration == 30000
\* StressRequest.DurationSeconds `validate:"min=1,max=30"`
DurationTagMin == 1
DurationTagMax == 30
\* StressRequest.Workers `validate:"min=1"`
WorkersTagMin == 1

StatusOK == 200
StatusBadRequest == 400
StatusInternalServerError == 500

(***************************************************************************)
(* Strings and the two parsers of the standard library the handler calls.  *)
(***************************************************************************)
Digits == <<"0", "1", "2", "3", "4", "5", "6", "7", "8", "9">>

IsDigit(c) == \E i \in 1..10 : Digits[i] = c

DigitVal(c) == (CHOOSE i \in 1..10 : Digits[i] = c) - 1

\* the value of a run of digits, most significant first
RECURSIVE DigitsVal(_)
DigitsVal(s) ==
    IF s = <<>> THEN 0
    ELSE 10 * DigitsVal(SubSeq(s, 1, Len(s) - 1)) + DigitVal(s[Len(s)])

AllDigits(s) == \A i \in 1..Len(s) : IsDigit(s[i])

RECURSIVE Pow10(_)
Pow10(n) == IF n = 0 THEN 1 ELSE 10 * Pow10(n - 1)

\* strconv.Atoi: optional sign, then one or more decimal digits
Atoi(s) ==
    LET signed == Len(s) > 0 /\ s[1] \in {"+", "-"}
        body   == IF signed THEN Tail(s) ELSE s
    IN  IF body = <<>> \/ ~AllDigits(body)
        THEN [ok |-> FALSE, val |-> 0]
        ELSE [ok |-> TRUE,
              val |-> IF signed /\ s[1] = "-" THEN 0 - DigitsVal(body)
                      ELSE DigitsVal(body)]

\* strconv.Itoa
RECURSIVE NatToStr(_)
NatToStr(n) ==
    IF n < 10 THEN Digits[n + 1]
    ELSE NatToStr(n \div 10) \o Digits[(n % 10) + 1]

Itoa(n) == IF n < 0 THEN "-" \o NatToStr(0 - n) ELSE NatToStr(n)

\* length of the leading run of digits, and of unit characters, of s
RECURSIVE DigitRun(_)
DigitRun(s) == IF s # <<>> /\ IsDigit(s[1]) THEN 1 + DigitRun(Tail(s)) ELSE 0

RECURSIVE UnitRun(_)
UnitRun(s) ==
    IF s # <<>> /\ ~IsDigit(s[1]) /\ s[1] # "." THEN 1 + UnitRun(Tail(s)) ELSE 0

Drop(s, n) == SubSeq(s, n + 1, Len(s))

\* time.ParseDuration's unit table, in milliseconds ("ns", "us" are finer
\* than the model's time unit and are not in the input alphabet)
UnitMs(u) ==
    IF u = <<"m", "s">> THEN 1
    ELSE IF u = <<"s">> THEN 1000
    ELSE IF u = <<"m">> THEN 60000
    ELSE IF u = <<"h">> THEN 3600000
    ELSE 0

\* one or more groups  digits [. digits] unit ; the sum of the groups
RECURSIVE ParseGroups(_)
ParseGroups(s) ==
    IF s = <<>> THEN [ok |-> TRUE, val |-> 0]
    ELSE
      LET n1   == DigitRun(s)
          int  == SubSeq(s, 1, n1)
          r1   == Drop(s, n1)
          dot  == r1 # <<>> /\ r1[1] = "."
          r2   == IF dot THEN Tail(r1) ELSE r1
          n2   == IF dot THEN DigitRun(r2) ELSE 0
          frac == SubSeq(r2, 1, n2)
          r3   == Drop(r2, n2)
          n3   == UnitRun(r3)
          unit == SubSeq(r3, 1, n3)
          rest == ParseGroups(Drop(r3, n3))
      IN  IF n1 = 0 /\ n2 = 0 THEN [ok |-> FALSE, val |-> 0]
          ELSE IF n3 = 0 \/ UnitMs(unit) = 0 THEN [ok |-> FALSE, val |-> 0]
          ELSE IF ~rest.ok THEN rest
          ELSE [ok |-> TRUE,
                val |-> DigitsVal(int) * UnitMs(unit)
                        + (DigitsVal(frac) * UnitMs(unit)) \div Pow10(n2)
                        + rest.val]

\* time.ParseDuration: [-+]?([0-9]*(\.[0-9]*)?[a-z]+)+ , or the string "0"
ParseDuration(s) ==
    LET signed == Len(s) > 0 /\ s[1] \in {"+", "-"}
        body   == IF signed THEN Tail(s) ELSE s
        g      == ParseGroups(body)
    IN  IF body = <<"0">> THEN [ok |-> TRUE, val |-> 0]
        ELSE IF body = <<>> \/ ~g.ok THEN [ok |-> FALSE, val |-> 0]
        ELSE [ok |-> TRUE,
              val |-> IF signed /\ s[1] = "-" THEN 0 - g.val ELSE g.val]

\* int(d.Seconds()): a duration in whole seconds, truncated toward zero
\* variant: rounds to the nearest second
SecondsRounded(ms) == (ms + 500) \div 1000

\* Duration.Seconds() converted with int(): whole seconds, toward zero
Seconds(ms) == IF ms >= 0 THEN ms \div 1000 ELSE 0 - ((0 - ms) \div 1000)

(***************************************************************************)
(* handlers: parameter validation of the /stress endpoint.                 *)
(***************************************************************************)
\* variant: the Workers tag is not enforced
ValidateStructLoose(req) ==
    (IF req.DurationSeconds < DurationTagMin \/ req.DurationSeconds > DurationTagMax
     THEN <<"DurationSeconds">> ELSE <<>>)

\* variant: the duration tag has no lower bound
ValidateStructNoMin(req) ==
    (IF req.DurationSeconds > DurationTagMax THEN <<"DurationSeconds">> ELSE <<>>)
    \o (IF req.Workers < WorkersTagMin THEN <<"Workers">> ELSE <<>>)

\* validate.Struct(req): the fields whose tag fails, in struct order
ValidateStruct(req) ==
    (IF req.DurationSeconds < DurationTagMin \/ req.DurationSeconds > DurationTagMax
     THEN <<"DurationSeconds">> ELSE <<>>)
    \o (IF req.Workers < WorkersTagMin THEN <<"Workers">> ELSE <<>>)

NoError == [Field |-> "", Message |-> ""]

\* formatValidationError: the first error whose field is known decides
RECURSIVE formatValidationError(_, _)
formatValidationError(errors, maxWorkers) ==
    IF errors = <<>> THEN [Field |-> "unknown", Message |-> "validation failed"]
    ELSE IF errors[1] = "DurationSeconds"
    THEN [Field |-> "duration", Message |-> "duration must be between 1s and 30s"]
    ELSE IF errors[1] = "Workers"
    THEN [Field |-> "workers",
          Message |-> "workers must be between 1 and " \o Itoa(maxWorkers)]
    ELSE formatValidationError(Tail(errors), maxWorkers)

\* variant: a string that does not parse counts as a zero duration
parseDurationParamZero(durationStr) ==
    LET d == ParseDuration(durationStr)
    IN  IF durationStr # <<>> /\ d.ok THEN Seconds(d.val) ELSE 0

\* the query value of "duration" as whole seconds, or the default
parseDurationParam(durationStr) ==
    LET d == ParseDuration(durationStr)
    IN  IF durationStr # <<>> /\ d.ok THEN Seconds(d.val)
        ELSE Seconds(defaultStressDuration)

\* the query value of "workers", or the default
parseWorkersParam(workersStr, cpus) ==
    LET w == Atoi(workersStr)
    IN  IF workersStr # <<>> /\ w.ok THEN w.val ELSE cpus

\* variant: the worker count is left as parsed
applyMaxBoundsNoClamp(req, maxWorkers) ==
    [DurationSeconds |->
        IF req.DurationSeconds > Seconds(maxStressDuration)
        THEN Seconds(maxStressDuration) ELSE req.DurationSeconds,
     Workers |-> req.Workers]

\* "Apply max bounds" on a request that passed validation
applyMaxBounds(req, maxWorkers) ==
    [DurationSeconds |->
        IF req.DurationSeconds > Seconds(maxStressDuration)
        THEN Seconds(maxStressDuration) ELSE req.DurationSeconds,
     Workers |-> IF req.Workers > maxWorkers THEN maxWorkers ELSE req.Workers]

\* parseAndValidateStressRequest: (req, err); err is NoError on success
parseAndValidateStressRequest(durationStr, workersStr, cpus) ==
    LET maxWorkers == cpus * 2
        req  == [DurationSeconds |-> parseDurationParam(durationStr),
                 Workers |-> parseWorkersParam(workersStr, cpus)]
        errs == ValidateStruct(req)
    IN  IF errs # <<>>
        THEN [req |-> req, err |-> formatValidationError(errs, maxWorkers)]
        ELSE [req |-> applyMaxBounds(req, maxWorkers), err |-> NoError]

(***************************************************************************)
(* Inputs: the query strings clients send to /stress.                      *)
(***************************************************************************)
Str0 == <<>>
DurationStrings ==
    { Str0,
      <<"b", "a", "n", "a", "n", "a">>,
      <<"1", "0">>,
      <<"5", "0", "0", "m", "s">>,
      <<"-", "1", "s">>,
      <<"0", "s">>,
      <<"1", "s">>,
      <<"1", ".", "5", "s">>,
      <<"3", "0", "s">>,
      <<"3", "0", ".", "5", "s">>,
      <<"3", "1", "s">>,
      <<"4", "5", "s">>,
      <<"1", "0", "0", "s">> }

WorkerStrings ==
    { Str0, <<"a", "b", "c">>, <<"-", "1">>, <<"0">>, <<"1">>, <<"2">>,
      <<"3">>, <<"5">> }

\* every duration with one worker, every worker count with a default or a
\* one-second duration, and two pairs in which both values are off
WideQueries ==
    [duration : DurationStrings, workers : {<<"1">>}]
    \cup [duration : {Str0, <<"1", "s">>}, workers : WorkerStrings]
    \cup { [duration |-> <<"4", "5", "s">>, workers |-> <<"0">>],
           [duration |-> <<"b", "a", "n", "a", "n", "a">>,
            workers |-> <<"a", "b", "c">>] }

\* the pairs sent when several requests are in flight together
NarrowQueries ==
    { [duration |-> <<"1", "s">>, workers |-> <<"1">>],
      [duration |-> <<"1", "s">>, workers |-> <<"0">>] }

NoQuery == [duration |-> Str0, workers |-> Str0]

Paths == {"/", "/health", "/stress", "/metrics"}

Reqs == 1..MaxReqs

\* worker goroutine indices: a request never runs more than 2 x cores
WorkerIds == 1..(2 * (CHOOSE c \in CPUs : \A d \in CPUs : d <= c))

(***************************************************************************)
(* State.                                                                  *)
(***************************************************************************)
VARIABLES
    numCPU,               \* runtime.NumCPU()
    clients,              \* the request slots on which a request arrives
    queries,              \* the /stress query strings the clients send
    now,                  \* wall clock, seconds
    pc,                   \* per request: where its goroutine stands
    request,              \* per request: path and query strings
    fault,                \* per request: none, unwinding, recovered or escaped
    panicAt,              \* per request: where its goroutine stood when it panicked
    stack,                \* per request: the frames of its chain, outermost first
    wrapped,              \* per request: responseWriter.statusCode
    whCalls,              \* per request: codes passed to responseWriter.WriteHeader
    resp,                 \* per request: the connection's http.ResponseWriter
    pending,              \* per request: the value SendJSON is about to encode
    logs,                 \* per request: events its goroutine handed to the logger
    observed,             \* per request: durations handed to ObserveRequestDuration
    lstart,               \* per request: Logging's start
    verr,                 \* per request: the error of parseAndValidateStressRequest
    sreq,                 \* per request: the validated StressRequest
    sstart,               \* per request: StressHandler's start
    elapsed,              \* per request: StressHandler's elapsed
    spawned,              \* per request: loop index of runMultiCoreStress
    wg,                   \* per request: the sync.WaitGroup counter
    workers,              \* per request: its worker goroutines
    httpRequestsTotal,    \* counter vector, by path (method is always GET)
    httpRequestDuration   \* histogram vector, by path: number of observations

reqVars == <<pc, request, fault, panicAt, stack, wrapped, whCalls, resp,
             pending, logs, observed, lstart>>
stressVars == <<verr, sreq, sstart, elapsed, spawned, wg, workers>>
metricVars == <<httpRequestsTotal, httpRequestDuration>>
envVars == <<numCPU, clients, queries>>
vars == <<envVars, now, reqVars, stressVars, metricVars>>

NoWorker == [st |-> "none", start |-> 0, elapsed |-> 0]
NoResp == [wroteHeader |-> FALSE, status |-> 0, body |-> <<>>]
NoStress == [DurationSeconds |-> 0, Workers |-> 0]
NoBody == [status |-> "", message |-> "", workers |-> 0, elapsed |-> 0]

InitState ==
    /\ now = 0
    /\ pc = [r \in Reqs |-> "idle"]
    /\ request = [r \in Reqs |-> [path |-> "", query |-> NoQuery]]
    /\ fault = [r \in Reqs |-> "none"]
    /\ panicAt = [r \in Reqs |-> ""]
    /\ stack = [r \in Reqs |-> <<>>]
    /\ wrapped = [r \in Reqs |-> 0]
    /\ whCalls = [r \in Reqs |-> <<>>]
    /\ resp = [r \in Reqs |-> NoResp]
    /\ pending = [r \in Reqs |-> NoBody]
    /\ logs = [r \in Reqs |-> <<>>]
    /\ observed = [r \in Reqs |-> <<>>]
    /\ lstart = [r \in Reqs |-> 0]
    /\ verr = [r \in Reqs |-> NoError]
    /\ sreq = [r \in Reqs |-> NoStress]
    /\ sstart = [r \in Reqs |-> 0]
    /\ elapsed = [r \in Reqs |-> 0]
    /\ spawned = [r \in Reqs |-> 0]
    /\ wg = [r \in Reqs |-> 0]
    /\ workers = [r \in Reqs |-> [i \in WorkerIds |-> NoWorker]]
    /\ httpRequestsTotal = [p \in Paths |-> 0]
    /\ httpRequestDuration = [p \in Paths |-> 0]

\* one client at a time, any core count, every query string
Init ==
    /\ numCPU \in CPUs
    /\ clients = {1}
    /\ queries = WideQueries
    /\ InitState

\* all clients together, one core, a few query strings
InitConcurrent ==
    /\ numCPU = 1
    /\ clients = Reqs
    /\ queries = NarrowQueries
    /\ InitState

(***************************************************************************)
(* net/http: the connection's ResponseWriter.  The first WriteHeader       *)
(* decides the status line; a Write before any WriteHeader sends 200.      *)
(***************************************************************************)
RespWriteHeader(w, code) ==
    IF w.wroteHeader THEN w
    ELSE [w EXCEPT !.wroteHeader = TRUE, !.status = code]

RespWrite(w, chunk) ==
    LET w1 == RespWriteHeader(w, StatusOK)
    IN  [w1 EXCEPT !.body = Append(@, chunk)]

\* http.Error on the connection's writer
RespError(w, chunk, code) == RespWrite(RespWriteHeader(w, code), chunk)

(***************************************************************************)
(* middleware: responseWriter, the status-capturing wrapper.               *)
(***************************************************************************)
RW(r) == [statusCode |-> wrapped[r], calls |-> whCalls[r], under |-> resp[r]]

SetRW(r, rw) ==
    /\ wrapped' = [wrapped EXCEPT ![r] = rw.statusCode]
    /\ whCalls' = [whCalls EXCEPT ![r] = rw.calls]
    /\ resp' = [resp EXCEPT ![r] = rw.under]

\* newResponseWriter
newResponseWriter(w) == [statusCode |-> StatusOK, calls |-> <<>>, under |-> w]

\* responseWriter.WriteHeader
WriteHeader(rw, code) ==
    [statusCode |-> code,
     calls |-> Append(rw.calls, code),
     under |-> RespWriteHeader(rw.under, code)]

\* responseWriter.Write is the embedded writer's Write
Write(rw, chunk) == [rw EXCEPT !.under = RespWrite(@, chunk)]

(***************************************************************************)
(* response: bodies and SendJSON.                                          *)
(***************************************************************************)
Body(status, message) ==
    [status |-> status, message |-> message, workers |-> 0, elapsed |-> 0]

WelcomeBody == Body("success", "Welcome to the Resilient GitOps Platform!")
EncodeErrorBody == Body("error", "Failed to encode response")
InternalErrorBody == Body("error", "Internal server error")
HealthBody == Body("", "OK")
MetricsBody == Body("", "metrics exposition")

\* SendJSON up to and including w.WriteHeader(statusCode)
SendJSONHeader(rw, statusCode) == WriteHeader(rw, statusCode)

\* SendJSON from json.NewEncoder(w).Encode(data) on; ok is Encode's outcome
SendJSONEncode(rw, data, ok) ==
    IF ok THEN Write(rw, data)
    ELSE Write(WriteHeader(rw, StatusInternalServerError), EncodeErrorBody)

(***************************************************************************)
(* logger: events are records; the level of Logging's event.               *)
(***************************************************************************)
Event(level, msg, status) == [level |-> level, msg |-> msg, status |-> status]

\* variant: the warn range starts one status too late
LevelForOffByOne(statusCode) ==
    IF statusCode > 400 /\ statusCode < 500 THEN "warn"
    ELSE IF statusCode >= 500 THEN "error"
    ELSE "info"

\* Logging's choice of logger.Info, logger.Warn or logger.Error
LevelFor(statusCode) ==
    IF statusCode >= 400 /\ statusCode < 500 THEN "warn"
    ELSE IF statusCode >= 500 THEN "error"
    ELSE "info"

Log(r, ev) == logs' = [logs EXCEPT ![r] = Append(@, ev)]

\* variant: the counter is incremented twice
TrackRequestTwice(path) ==
    httpRequestsTotal' = [httpRequestsTotal EXCEPT ![path] = @ + 2]

\* metrics.TrackRequest
TrackRequest(path) ==
    httpRequestsTotal' = [httpRequestsTotal EXCEPT ![path] = @ + 1]

\* metrics.ObserveRequestDuration
ObserveRequestDuration(r, path, seconds) ==
    /\ httpRequestDuration' = [httpRequestDuration EXCEPT ![path] = @ + 1]
    /\ observed' = [observed EXCEPT ![r] = Append(@, seconds)]

(***************************************************************************)
(* The pipeline: router, Recovery, Logging.                                *)
(***************************************************************************)
\* the handler setupRouter registers for a path
Route(path) ==
    IF path = "/" THEN "home"
    ELSE IF path = "/health" THEN "health"
    ELSE IF path = "/stress" THEN "stress"
    ELSE "metrics"

\* variant: Logging is added before Recovery
MiddlewareSwapped == <<"logging", "recovery">>

\* router.Use(middleware.Recovery), then router.Use(middleware.Logging)
Middleware == <<"recovery", "logging">>

IndexOf(stage) == CHOOSE k \in 1..Len(Middleware) : Middleware[k] = stage

\* the k-th link of the chain: a middleware or, past the last, the handler
Chain(k, path) == IF k <= Len(Middleware) THEN Middleware[k] ELSE Route(path)

\* where the goroutine continues when the k-th link returns
Return(k) ==
    IF k = 1 THEN "served"
    ELSE IF Middleware[k - 1] = "recovery" THEN "recovery_defer"
    ELSE "logging_after"

HandlerReturn == Return(Len(Middleware) + 1)

\* the frame a link runs in
Frame(link) ==
    IF link = "recovery" THEN "Recovery"
    ELSE IF link = "logging" THEN "Logging"
    ELSE "handler"

Pop(st) == SubSeq(st, 1, Len(st) - 1)

\* a GET request arrives on a free slot and matches a route
Receive(r) ==
    /\ r \in clients
    /\ pc[r] = "idle"
    /\ \E path \in Paths :
         \E q \in (IF path = "/stress" THEN queries ELSE {NoQuery}) :
            /\ request' = [request EXCEPT ![r] = [path |-> path, query |-> q]]
            /\ pc' = [pc EXCEPT ![r] = Chain(1, path)]
            /\ stack' = [stack EXCEPT ![r] = <<Frame(Chain(1, path))>>]
    /\ UNCHANGED <<envVars, now, fault, panicAt, wrapped, whCalls, resp, pending,
                   logs, observed, lstart, stressVars, metricVars>>

\* Recovery: the deferred function is installed, next.ServeHTTP is called
RecoveryEnter(r) ==
    /\ pc[r] = "recovery"
    /\ LET next == Chain(IndexOf("recovery") + 1, request[r].path)
       IN  /\ pc' = [pc EXCEPT ![r] = next]
           /\ stack' = [stack EXCEPT ![r] = Append(@, Frame(next))]
    /\ UNCHANGED <<envVars, now, request, fault, panicAt, wrapped, whCalls, resp,
                   pending, logs, observed, lstart, stressVars, metricVars>>

\* Logging before next.ServeHTTP: start time and the wrapped writer
LoggingEnter(r) ==
    /\ pc[r] = "logging"
    /\ lstart' = [lstart EXCEPT ![r] = now]
    /\ SetRW(r, newResponseWriter(resp[r]))
    /\ LET next == Chain(IndexOf("logging") + 1, request[r].path)
       IN  /\ pc' = [pc EXCEPT ![r] = next]
           /\ stack' = [stack EXCEPT ![r] = Append(@, Frame(next))]
    /\ UNCHANGED <<envVars, now, request, fault, panicAt, pending, logs, observed,
                   stressVars, metricVars>>

\* Logging after next.ServeHTTP returned: one observation, one event
LoggingAfter(r) ==
    /\ pc[r] = "logging_after"
    /\ ObserveRequestDuration(r, request[r].path, now - lstart[r])
    /\ Log(r, Event(LevelFor(wrapped[r]), "HTTP request completed", wrapped[r]))
    /\ pc' = [pc EXCEPT ![r] = Return(IndexOf("logging"))]
    /\ stack' = [stack EXCEPT ![r] = Pop(@)]
    /\ UNCHANGED <<envVars, now, request, fault, panicAt, wrapped, whCalls, resp,
                   pending, lstart, stressVars, httpRequestsTotal>>

\* where a goroutine may raise an unrecoverable fault: a handler on entry,
\* before it has written anything, and inside SendJSON after the status was
\* written; Logging once next.ServeHTTP has returned
FaultPoints == {"home", "health", "metrics", "stress", "encode", "logging_after"}

\* a panic unwinds the frames, none of which defers anything, up to
\* Recovery's; with no Recovery frame below, it leaves the chain
Panic(r) ==
    /\ pc[r] \in FaultPoints
    /\ fault[r] = "none"
    /\ panicAt' = [panicAt EXCEPT ![r] = pc[r]]
    /\ IF \E k \in 1..Len(stack[r]) : stack[r][k] = "Recovery"
       THEN /\ fault' = [fault EXCEPT ![r] = "unwinding"]
            /\ pc' = [pc EXCEPT ![r] = "recovery_defer"]
            /\ stack' = [stack EXCEPT ![r] =
                 SubSeq(@, 1, CHOOSE k \in 1..Len(@) : @[k] = "Recovery")]
       ELSE /\ fault' = [fault EXCEPT ![r] = "escaped"]
            /\ pc' = [pc EXCEPT ![r] = "done"]
            /\ stack' = [stack EXCEPT ![r] = <<>>]
    /\ UNCHANGED <<envVars, now, request, wrapped, whCalls, resp, pending, logs,
                   observed, lstart, stressVars, metricVars>>

\* Recovery's deferred function; http.Error goes to the writer Recovery was
\* handed, which is Logging's wrapper only if Logging is further out
RecoveryDefer(r) ==
    /\ pc[r] = "recovery_defer"
    /\ IF fault[r] = "unwinding"
       THEN /\ Log(r, Event("error", "Recovered from panic", 0))
            /\ IF IndexOf("logging") < IndexOf("recovery")
               THEN SetRW(r, Write(WriteHeader(RW(r), StatusInternalServerError),
                                   InternalErrorBody))
               ELSE /\ resp' = [resp EXCEPT ![r] =
                         RespError(@, InternalErrorBody, StatusInternalServerError)]
                    /\ UNCHANGED <<wrapped, whCalls>>
            /\ fault' = [fault EXCEPT ![r] = "recovered"]
       ELSE UNCHANGED <<logs, resp, fault, wrapped, whCalls>>
    /\ pc' = [pc EXCEPT ![r] = Return(IndexOf("recovery"))]
    /\ stack' = [stack EXCEPT ![r] = Pop(@)]
    /\ UNCHANGED <<envVars, now, request, panicAt, pending, observed, lstart,
                   stressVars, metricVars>>

\* net/http after the handler chain returned: a response that was never
\* started is sent as 200
ServerFinish(r) ==
    /\ pc[r] = "served"
    /\ resp' = [resp EXCEPT ![r] = RespWriteHeader(@, StatusOK)]
    /\ pc' = [pc EXCEPT ![r] = "done"]
    /\ UNCHANGED <<envVars, now, request, stack, fault, panicAt, wrapped, whCalls,
                   pending, logs, observed, lstart, stressVars, metricVars>>

(***************************************************************************)
(* handlers.                                                               *)
(***************************************************************************)
\* HomeHandler up to SendJSON's WriteHeader
HomeHandler(r) ==
    /\ pc[r] = "home"
    /\ TrackRequest(request[r].path)
    /\ Log(r, Event("debug", "Processing home request", 0))
    /\ SetRW(r, SendJSONHeader(RW(r), StatusOK))
    /\ pending' = [pending EXCEPT ![r] = WelcomeBody]
    /\ pc' = [pc EXCEPT ![r] = "encode"]
    /\ UNCHANGED <<envVars, now, request, stack, fault, panicAt, observed, lstart, stressVars,
                   httpRequestDuration>>

\* HealthHandler: no TrackRequest, a debug event, WriteHeader and Write
HealthHandler(r) ==
    /\ pc[r] = "health"
    /\ Log(r, Event("debug", "Health check requested", 0))
    /\ SetRW(r, Write(WriteHeader(RW(r), StatusOK), HealthBody))
    /\ pc' = [pc EXCEPT ![r] = HandlerReturn]
    /\ stack' = [stack EXCEPT ![r] = Pop(@)]
    /\ UNCHANGED <<envVars, now, request, fault, panicAt, pending, observed, lstart,
                   stressVars, metricVars>>

\* promhttp.Handler(): writes the exposition without calling WriteHeader
MetricsHandler(r) ==
    /\ pc[r] = "metrics"
    /\ SetRW(r, Write(RW(r), MetricsBody))
    /\ pc' = [pc EXCEPT ![r] = HandlerReturn]
    /\ stack' = [stack EXCEPT ![r] = Pop(@)]
    /\ UNCHANGED <<envVars, now, request, fault, panicAt, pending, logs, observed, lstart,
                   stressVars, metricVars>>

\* the rest of SendJSON, for whichever handler called it; the handler
\* returns afterwards
Encode(r) ==
    /\ pc[r] = "encode"
    /\ \E ok \in BOOLEAN : SetRW(r, SendJSONEncode(RW(r), pending[r], ok))
    /\ pc' = [pc EXCEPT ![r] = HandlerReturn]
    /\ stack' = [stack EXCEPT ![r] = Pop(@)]
    /\ UNCHANGED <<envVars, now, request, fault, panicAt, pending, logs, observed, lstart,
                   stressVars, metricVars>>

\* StressHandler: TrackRequest, then parseAndValidateStressRequest
StressHandler(r) ==
    /\ pc[r] = "stress"
    /\ TrackRequest(request[r].path)
    /\ LET res == parseAndValidateStressRequest(request[r].query.duration,
                                                request[r].query.workers, numCPU)
       IN  IF res.err # NoError
           THEN /\ verr' = [verr EXCEPT ![r] = res.err]
                /\ Log(r, Event("warn", "Invalid stress request parameters", 0))
                /\ SetRW(r, SendJSONHeader(RW(r), StatusBadRequest))
                /\ pending' = [pending EXCEPT ![r] = Body("error", res.err.Message)]
                /\ pc' = [pc EXCEPT ![r] = "encode"]
                /\ UNCHANGED <<sreq, sstart>>
           ELSE /\ sreq' = [sreq EXCEPT ![r] = res.req]
                /\ Log(r, Event("warn", "Multi-core stress test initiated", 0))
                /\ sstart' = [sstart EXCEPT ![r] = now]
                /\ pc' = [pc EXCEPT ![r] = "stress_run"]
                /\ UNCHANGED <<verr, wrapped, whCalls, resp, pending>>
    /\ UNCHANGED <<envVars, now, request, stack, fault, panicAt, observed, lstart, elapsed,
                   spawned, wg, workers, httpRequestDuration>>

(***************************************************************************)
(* The load generator.                                                     *)
(***************************************************************************)
\* runMultiCoreStress, one iteration of the launch loop: wg.Add(1); go ...
StressSpawn(r) ==
    /\ pc[r] = "stress_run"
    /\ spawned[r] < sreq[r].Workers
    /\ wg' = [wg EXCEPT ![r] = @ + 1]
    /\ workers' = [workers EXCEPT ![r][spawned[r] + 1].st = "spawned"]
    /\ spawned' = [spawned EXCEPT ![r] = @ + 1]
    /\ UNCHANGED <<envVars, now, reqVars, verr, sreq, sstart, elapsed, metricVars>>

\* stressWorker: start := time.Now()
WorkerStart(r, i) ==
    /\ workers[r][i].st = "spawned"
    /\ workers' = [workers EXCEPT ![r][i].st = "running", ![r][i].start = now]
    /\ UNCHANGED <<envVars, now, reqVars, verr, sreq, sstart, elapsed, spawned, wg,
                   metricVars>>

\* variant: the loop gives up one second early
WorkerLoopsEarly(w, duration) == now - w.start < duration - 1

\* variant: the loop never sees its deadline
WorkerLoopsForever(w, duration) == now - w.start >= 0

\* the loop condition time.Since(start) < duration
WorkerLoops(w, duration) == now - w.start < duration

\* stressWorker leaves its loop, then the deferred wg.Done()
WorkerFinish(r, i) ==
    /\ workers[r][i].st = "running"
    /\ ~WorkerLoops(workers[r][i], sreq[r].DurationSeconds)
    /\ workers' = [workers EXCEPT ![r][i].st = "done",
                                  ![r][i].elapsed = now - workers[r][i].start]
    /\ wg' = [wg EXCEPT ![r] = @ - 1]
    /\ UNCHANGED <<envVars, now, reqVars, verr, sreq, sstart, elapsed, spawned,
                   metricVars>>

\* variant: the join does not wait
WaitReturnsAtOnce(r) == wg[r] >= 0

\* wg.Wait() may return
WaitReturns(r) == wg[r] = 0

\* StressHandler after runMultiCoreStress returned, up to SendJSON's
\* WriteHeader
StressJoin(r) ==
    /\ pc[r] = "stress_run"
    /\ spawned[r] = sreq[r].Workers
    /\ WaitReturns(r)
    /\ elapsed' = [elapsed EXCEPT ![r] = now - sstart[r]]
    /\ Log(r, Event("info", "Stress test completed", 0))
    /\ SetRW(r, SendJSONHeader(RW(r), StatusOK))
    /\ pending' = [pending EXCEPT ![r] =
         [status |-> "stress_complete", message |-> "CPU load simulation finished",
          workers |-> sreq[r].Workers, elapsed |-> now - sstart[r]]]
    /\ pc' = [pc EXCEPT ![r] = "encode"]
    /\ UNCHANGED <<envVars, now, request, stack, fault, panicAt, observed, lstart, verr, sreq,
                   sstart, spawned, wg, workers, metricVars>>

(***************************************************************************)
(* The clock.                                                              *)
(***************************************************************************)
\* the deadlines that running workers have not reached yet
Deadlines ==
    { workers[r][i].start + sreq[r].DurationSeconds :
        r \in Reqs, i \in WorkerIds } \cap
    { t \in 0..(now + Seconds(maxStressDuration)) :
        \E r \in Reqs, i \in WorkerIds :
            /\ workers[r][i].st = "running"
            /\ t = workers[r][i].start + sreq[r].DurationSeconds
            /\ t > now }

\* a second passes; past MaxTime the clock moves on to the next deadline
Tick ==
    /\ \/ /\ now < MaxTime
          /\ now' = now + 1
       \/ /\ now >= MaxTime
          /\ Deadlines # {}
          /\ now' = CHOOSE t \in Deadlines : \A u \in Deadlines : t <= u
    /\ UNCHANGED <<envVars, reqVars, stressVars, metricVars>>

Next ==
    \/ \E r \in Reqs : Receive(r)
    \/ \E r \in Reqs : RecoveryEnter(r)
    \/ \E r \in Reqs : LoggingEnter(r)
    \/ \E r \in Reqs : HomeHandler(r)
    \/ \E r \in Reqs : HealthHandler(r)
    \/ \E r \in Reqs : MetricsHandler(r)
    \/ \E r \in Reqs : StressHandler(r)
    \/ \E r \in Reqs : StressSpawn(r)
    \/ \E r \in Reqs, i \in WorkerIds : WorkerStart(r, i)
    \/ \E r \in Reqs, i \in WorkerIds : WorkerFinish(r, i)
    \/ \E r \in Reqs : StressJoin(r)
    \/ \E r \in Reqs : Encode(r)
    \/ \E r \in Reqs : Panic(r)
    \/ \E r \in Reqs : LoggingAfter(r)
    \/ \E r \in Reqs : RecoveryDefer(r)
    \/ \E r \in Reqs : ServerFinish(r)
    \/ Tick

Spec == Init /\ [][Next]_vars

SpecConcurrent == InitConcurrent /\ [][Next]_vars

\* an advancing clock, and a scheduler that runs every goroutine that can
\* take a step: the handler goroutines and the workers.  No fairness for
\* arrivals or for faults.
Fairness ==
    /\ WF_vars(Tick)
    /\ \A r \in Reqs :
          /\ WF_vars(StressSpawn(r))
          /\ WF_vars(StressJoin(r))
          /\ WF_vars(Encode(r))
          /\ WF_vars(LoggingAfter(r))
          /\ WF_vars(RecoveryDefer(r))
          /\ WF_vars(ServerFinish(r))
          /\ \A i \in WorkerIds :
                /\ WF_vars(WorkerStart(r, i))
                /\ WF_vars(WorkerFinish(r, i))

FairSpecConcurrent == InitConcurrent /\ [][Next]_vars /\ Fairness

(***************************************************************************)
(* Vocabulary of the properties.                                           *)
(***************************************************************************)
Min(a, b) == IF a <= b THEN a ELSE b

IsStress(r) == request[r].path = "/stress"

\* parseAndValidateStressRequest has returned for request r
Validated(r) == IsStress(r) /\ (sreq[r] # NoStress \/ verr[r] # NoError)

\* runMultiCoreStress has returned for request r
Joined(r) == pending[r].status = "stress_complete"

\* the events Logging emitted for request r
RequestEvents(r) ==
    { k \in 1..Len(logs[r]) : logs[r][k].msg = "HTTP request completed" }

\* the fault points that lie in a route's handler
HandlerPoints == FaultPoints \ {"logging_after"}

\* the worker goroutines request r has launched
Launched(r) == { i \in WorkerIds : workers[r][i].st # "none" }

\* query strings by what they denote, written out
UnparseableDurations == { <<"b", "a", "n", "a", "n", "a">>, <<"1", "0">> }
UnparseableWorkers == { <<"a", "b", "c">> }
DurationsOver30 == { <<"3", "1", "s">>, <<"4", "5", "s">>, <<"1", "0", "0", "s">> }
DurationsInRange == { <<"1", "s">>, <<"1", ".", "5", "s">>, <<"3", "0", "s">> }
WorkersBelow1 == { <<"-", "1">>, <<"0">> }
WorkersParsed(q) ==
    IF q = <<"1">> THEN 1 ELSE IF q = <<"2">> THEN 2 ELSE IF q = <<"3">> THEN 3
    ELSE IF q = <<"5">> THEN 5 ELSE 0
WorkersMessage ==
    IF numCPU = 1 THEN "workers must be between 1 and 2"
    ELSE IF numCPU = 2 THEN "workers must be between 1 and 4"
    ELSE "workers must be between 1 and 6"

(***************************************************************************)
(* C1: every request that went through the pipeline, whether its handler   *)
(* returned or panicked, has produced exactly one duration observation and *)
(* exactly one request log event by the time it is finished.               *)
(***************************************************************************)
C1_OneObservationOneLog ==
    \A r \in Reqs :
        pc[r] = "done" =>
            /\ Len(observed[r]) = 1
            /\ Cardinality(RequestEvents(r)) = 1

(***************************************************************************)
(* C2: the status in Logging's event is the code of the first WriteHeader  *)
(* call on the wrapped writer, or 200 if there was none, and the recorded  *)
(* status is overwritten at most once.                                     *)
(***************************************************************************)
C2_LoggedStatusIsFirstWrite ==
    \A r \in Reqs :
        /\ Len(whCalls[r]) > 1 => wrapped[r] = whCalls[r][1]
        /\ \A k \in RequestEvents(r) :
              logs[r][k].status =
                  IF whCalls[r] = <<>> THEN StatusOK ELSE whCalls[r][1]

(***************************************************************************)
(* C3: a /stress request whose duration parses to more than 30 seconds,    *)
(* with a valid workers value, is not rejected: the load generator gets 30 *)
(* seconds and the status written is 200.                                  *)
(***************************************************************************)
C3_LongDurationClamped ==
    \A r \in Reqs :
        ( /\ Validated(r)
          /\ request[r].query.duration \in DurationsOver30
          /\ request[r].query.workers = <<"1">> )
        => /\ verr[r] = NoError
           /\ sreq[r].DurationSeconds = 30
           /\ \A k \in 1..Len(whCalls[r]) : whCalls[r][k] # StatusBadRequest

(***************************************************************************)
(* C4: with a valid duration and a parsed workers value w >= 1 the request *)
(* is accepted, and the number of workers run and the worker count in the  *)
(* 200 response are both min(w, 2 x cores).                                *)
(***************************************************************************)
C4_WorkersClamped ==
    \A r \in Reqs :
        LET w == WorkersParsed(request[r].query.workers)
            m == Min(w, 2 * numCPU)
        IN  ( /\ Validated(r)
              /\ request[r].query.duration \in DurationsInRange \cup {Str0}
              /\ w >= 1 )
            => /\ verr[r] = NoError
               /\ sreq[r].Workers = m
               /\ Cardinality(Launched(r)) <= m
               /\ whCalls[r] # <<>> => whCalls[r][1] = StatusOK
               /\ Joined(r) =>
                    /\ Cardinality(Launched(r)) = m
                    /\ pending[r].workers = m
               /\ \A k \in 1..Len(resp[r].body) :
                    resp[r].body[k].status = "stress_complete"
                        => resp[r].body[k].workers = m

C4_Witness ==
    \E r \in Reqs :
        /\ pc[r] = "done"
        /\ IsStress(r)
        /\ WorkersParsed(request[r].query.workers) > 2 * numCPU
        /\ resp[r].status = StatusOK
        /\ Len(resp[r].body) = 1
        /\ resp[r].body[1].status = "stress_complete"
        /\ resp[r].body[1].workers = 2 * numCPU
        /\ Cardinality(Launched(r)) = 2 * numCPU

(***************************************************************************)
(* C5: a workers value of 0 or below, with the duration absent or valid,   *)
(* is answered 400 with field "workers" and the message "workers must be   *)
(* between 1 and <2 x cores>".                                             *)
(***************************************************************************)
C5_WorkersRejected ==
    \A r \in Reqs :
        ( /\ Validated(r)
          /\ request[r].query.workers \in WorkersBelow1
          /\ request[r].query.duration \in DurationsInRange \cup {Str0} )
        => /\ verr[r] = [Field |-> "workers", Message |-> WorkersMessage]
           /\ whCalls[r] # <<>>
           /\ whCalls[r][1] = StatusBadRequest
           /\ pending[r] = Body("error", WorkersMessage)
           /\ Launched(r) = {}
           /\ pc[r] = "done" => resp[r].status = StatusBadRequest

C5_Witness ==
    \E r \in Reqs :
        /\ pc[r] = "done"
        /\ IsStress(r)
        /\ request[r].query.workers = <<"-", "1">>
        /\ numCPU = 2
        /\ resp[r].status = StatusBadRequest
        /\ resp[r].body = <<Body("error", "workers must be between 1 and 4")>>

(***************************************************************************)
(* C6: a duration string that does not parse is replaced by 2 seconds and  *)
(* a workers string that does not parse by the core count, and a parse     *)
(* failure alone never leads to a 400.                                     *)
(***************************************************************************)
C6_ParseFailureDefaults ==
    \A r \in Reqs :
        LET badD == request[r].query.duration \in UnparseableDurations
            badW == request[r].query.workers \in UnparseableWorkers
            absD == request[r].query.duration = Str0
            absW == request[r].query.workers = Str0
        IN  Validated(r) =>
            /\ badD => /\ verr[r].Field # "duration"
                       /\ verr[r] = NoError => sreq[r].DurationSeconds = 2
            /\ badW => /\ verr[r].Field # "workers"
                       /\ verr[r] = NoError => sreq[r].Workers = numCPU
            /\ ((badD \/ badW) /\ (badD \/ absD \/ request[r].query.duration \in DurationsInRange)
                               /\ (badW \/ absW \/ WorkersParsed(request[r].query.workers) >= 1))
                 => /\ verr[r] = NoError
                    /\ \A k \in 1..Len(whCalls[r]) : whCalls[r][k] # StatusBadRequest

C6_Witness ==
    \E r \in Reqs :
        /\ pc[r] = "done"
        /\ IsStress(r)
        /\ request[r].query.duration = <<"b", "a", "n", "a", "n", "a">>
        /\ request[r].query.workers = <<"a", "b", "c">>
        /\ resp[r].status = StatusOK
        /\ sreq[r] = [DurationSeconds |-> 2, Workers |-> numCPU]
        /\ Len(resp[r].body) = 1
        /\ resp[r].body[1].status = "stress_complete"

(***************************************************************************)
(* C7: when a handler panics, the client gets exactly one response, with   *)
(* status 500 and Recovery's body, and the panic stops at Recovery.        *)
(***************************************************************************)
C7_PanicGives500 ==
    \A r \in Reqs :
        (pc[r] = "done" /\ fault[r] # "none" /\ panicAt[r] \in HandlerPoints)
        => /\ fault[r] = "recovered"
           /\ resp[r].status = StatusInternalServerError
           /\ resp[r].body = <<InternalErrorBody>>

(***************************************************************************)
(* C8: runMultiCoreStress launches exactly `workers` goroutines and        *)
(* returns only after each of them has finished, and a worker finishes     *)
(* only once its own elapsed time has reached the duration.                *)
(***************************************************************************)
C8_FanOutFullJoin ==
    \A r \in Reqs :
        /\ Launched(r) = 1..spawned[r]
        /\ spawned[r] <= sreq[r].Workers
        /\ \A i \in WorkerIds :
              workers[r][i].st = "done"
                  => workers[r][i].elapsed >= sreq[r].DurationSeconds
        /\ Joined(r) =>
              /\ Cardinality(Launched(r)) = sreq[r].Workers
              /\ \A i \in Launched(r) : workers[r][i].st = "done"

C8_Witness ==
    \E r \in Reqs :
        /\ Joined(r)
        /\ sreq[r].Workers = 3
        /\ workers[r][3].st = "done"
        /\ workers[r][1].st = "done"
        /\ workers[r][3].start + workers[r][3].elapsed
             < workers[r][1].start + workers[r][1].elapsed
        /\ workers[r][2].elapsed > sreq[r].DurationSeconds

(***************************************************************************)
(* C9: the 200 response of an accepted /stress request is written only     *)
(* after the join, at least d seconds after the handler started the load,  *)
(* and the elapsed time it reports is at least d.                          *)
(***************************************************************************)
C9_ResponseAfterJoin ==
    \A r \in Reqs :
        (IsStress(r) /\ whCalls[r] # <<>> /\ whCalls[r][1] = StatusOK)
        => /\ wg[r] = 0
           /\ \A i \in 1..sreq[r].Workers : workers[r][i].st = "done"
           /\ now - sstart[r] >= sreq[r].DurationSeconds
           /\ elapsed[r] >= sreq[r].DurationSeconds
           /\ pending[r].elapsed >= sreq[r].DurationSeconds
           /\ \A k \in 1..Len(resp[r].body) :
                resp[r].body[k].status = "stress_complete"
                    => resp[r].body[k].elapsed >= sreq[r].DurationSeconds

C9_Witness ==
    \E r \in Reqs :
        /\ pc[r] = "done"
        /\ IsStress(r)
        /\ request[r].query.duration = <<"3", "0", "s">>
        /\ resp[r].status = StatusOK
        /\ Len(resp[r].body) = 1
        /\ resp[r].body[1].status = "stress_complete"
        /\ resp[r].body[1].elapsed >= 30

(***************************************************************************)
(* C10: a GET /health request never increments the request counter and     *)
(* never produces an info-level log event.                                 *)
(***************************************************************************)
C10_HealthSilent ==
    /\ httpRequestsTotal["/health"] = 0
    /\ \A r \in Reqs :
          request[r].path = "/health"
              => \A k \in 1..Len(logs[r]) : logs[r][k].level # "info"

(***************************************************************************)
(* C11: whenever the load generator is invoked its parameters satisfy      *)
(* 1 <= durationSeconds <= 30 and 1 <= workers <= 2 x cores, and a request *)
(* answered 400 never starts it.                                           *)
(***************************************************************************)
C11_GeneratorParametersBounded ==
    \A r \in Reqs :
        /\ (pc[r] = "stress_run" \/ spawned[r] > 0 \/ Launched(r) # {} \/ Joined(r))
              => /\ sreq[r].DurationSeconds >= 1
                 /\ sreq[r].DurationSeconds <= 30
                 /\ sreq[r].Workers >= 1
                 /\ sreq[r].Workers <= 2 * numCPU
        /\ (\E k \in 1..Len(whCalls[r]) : whCalls[r][k] = StatusBadRequest)
              => /\ pc[r] # "stress_run"
                 /\ spawned[r] = 0
                 /\ Launched(r) = {}
                 /\ ~Joined(r)

C11_Witness ==
    \E r \in Reqs :
        /\ Joined(r)
        /\ sreq[r] = [DurationSeconds |-> 30, Workers |-> 1]
        /\ workers[r][1].st = "done"
        /\ workers[r][1].elapsed = 30

(***************************************************************************)
(* C12: when JSON encoding of the data fails in SendJSON, the client       *)
(* receives status 500 with the fixed body "Failed to encode response",    *)
(* whatever status code was passed.                                        *)
(***************************************************************************)
C12_EncodeFailureGives500 ==
    \A r \in Reqs :
        (\E k \in 1..Len(resp[r].body) : resp[r].body[k] = EncodeErrorBody)
        => /\ resp[r].status = StatusInternalServerError
           /\ resp[r].body = <<EncodeErrorBody>>

(***************************************************************************)
(* C13: on every routed request Recovery is entered first and exited last, *)
(* Logging runs inside Recovery and the handler inside Logging, so that a  *)
(* panic of the handler or of Logging itself is intercepted by Recovery.   *)
(***************************************************************************)
C13_StagesNest ==
    \A r \in Reqs :
        /\ \E n \in 0..3 : stack[r] = SubSeq(<<"Recovery", "Logging", "handler">>, 1, n)
        /\ pc[r] \in {"home", "health", "metrics", "stress", "stress_run", "encode"}
              => stack[r] = <<"Recovery", "Logging", "handler">>
        /\ pc[r] \in {"logging", "logging_after"} => stack[r] = <<"Recovery", "Logging">>
        /\ pc[r] \in {"recovery", "recovery_defer"} => stack[r] = <<"Recovery">>
        /\ pc[r] \in {"idle", "served", "done"} => stack[r] = <<>>
        /\ fault[r] # "escaped"
        /\ fault[r] = "unwinding" => pc[r] = "recovery_defer"
        /\ (pc[r] = "done" /\ panicAt[r] # "") => fault[r] = "recovered"

C13_Witness ==
    \E r \in Reqs :
        /\ pc[r] = "done"
        /\ panicAt[r] = "logging_after"
        /\ fault[r] = "recovered"
        /\ \E k \in 1..Len(logs[r]) : logs[r][k].msg = "Recovered from panic"

(***************************************************************************)
(* C14: when Recovery intercepts a panic it writes status 500 and the      *)
(* fixed error body only if nothing was written for the request before;    *)
(* otherwise it adds nothing to the response.  Either way it emits one     *)
(* error-level event and the panic goes no further.                        *)
(***************************************************************************)
C14_RecoveryWritesOnlyIfUnwritten ==
    \A r \in Reqs :
        fault[r] = "recovered"
        => /\ \/ /\ resp[r].status = StatusInternalServerError
                 /\ resp[r].body = <<InternalErrorBody>>
              \/ \A k \in 1..Len(resp[r].body) : resp[r].body[k] # InternalErrorBody
           /\ Cardinality({ k \in 1..Len(logs[r]) :
                              /\ logs[r][k].level = "error"
                              /\ logs[r][k].msg = "Recovered from panic" }) = 1

(***************************************************************************)
(* C15: the level of Logging's event depends on the recorded status only:  *)
(* 200..399 gives info, 400..499 warn, 500..599 error, for every status a  *)
(* handler can write.                                                      *)
(***************************************************************************)
LevelOfRange(status) ==
    IF status \in 200..399 THEN "info"
    ELSE IF status \in 400..499 THEN "warn"
    ELSE "error"

LevelsOfAllStatuses == \A status \in 200..599 : LevelFor(status) = LevelOfRange(status)

C15_LevelFollowsStatus ==
    /\ LevelsOfAllStatuses
    /\ \A r \in Reqs : \A k \in RequestEvents(r) :
          /\ logs[r][k].status \in 200..599
          /\ logs[r][k].level = LevelOfRange(logs[r][k].status)

C15_Witness ==
    \E r \in Reqs : \E k \in RequestEvents(r) :
        /\ logs[r][k].status = 400
        /\ logs[r][k].level = "warn"
        /\ resp[r].status = StatusBadRequest

(***************************************************************************)
(* C16: with an advancing clock and fair scheduling, every accepted        *)
(* /stress request completes: each of its workers leaves its loop, the     *)
(* join returns and the handler writes its 200 response, however many      *)
(* stress requests run at the same time.                                   *)
(***************************************************************************)
C16_StressCompletes ==
    \A r \in Reqs :
        (pc[r] = "stress_run")
        ~> /\ pc[r] = "done"
           /\ Joined(r)
           /\ \A i \in 1..sreq[r].Workers : workers[r][i].st = "done"
           /\ wg[r] = 0
           /\ resp[r].status = StatusOK

C16_Witness ==
    \A r \in Reqs :
        /\ pc[r] = "done"
        /\ Joined(r)
        /\ resp[r].status = StatusOK
        /\ sstart[r] = 0
        /\ workers[r][1].st = "done"

(***************************************************************************)
(* C17: after any interleaving of requests the request counter of a path   *)
(* equals the number of GET / and GET /stress requests whose handler       *)
(* started: one increment each, made before validation, so that /stress    *)
(* requests rejected with 400 are counted too.                             *)
(***************************************************************************)
\* the handler of request r has run its first statement
HandlerRan(r) ==
    /\ pc[r] \notin {"idle", "recovery", "logging", Route(request[r].path)}
    /\ panicAt[r] # Route(request[r].path)

C17_CounterCountsHandlers ==
    /\ \A p \in {"/", "/stress"} :
          httpRequestsTotal[p] =
              Cardinality({ r \in Reqs : request[r].path = p /\ HandlerRan(r) })
    /\ \A p \in Paths \ {"/", "/stress"} : httpRequestsTotal[p] = 0
    /\ \A r \in Reqs :
          (IsStress(r) /\ verr[r] # NoError) => httpRequestsTotal["/stress"] >= 1

C17_Witness ==
    \E r1, r2 \in Reqs :
        /\ pc[r1] = "done" /\ pc[r2] = "done"
        /\ IsStress(r1) /\ verr[r1] # NoError /\ resp[r1].status = StatusBadRequest
        /\ IsStress(r2) /\ Joined(r2) /\ resp[r2].status = StatusOK
        /\ sstart[r2] = 0 /\ now = 1
        /\ httpRequestsTotal["/stress"] = 2

(***************************************************************************)
(* C18: a parseable duration is truncated to whole seconds toward zero     *)
(* before it is validated: the effective duration never exceeds the        *)
(* requested one, and a parseable duration that truncates to less than one *)
(* second (500ms, 0s, a negative one) is rejected with 400 and the message *)
(* "duration must be between 1s and 30s" instead of getting the default.   *)
(***************************************************************************)
\* the parseable duration strings of the clients, in milliseconds
RequestedMs(d) ==
    IF d = <<"5", "0", "0", "m", "s">> THEN 500
    ELSE IF d = <<"-", "1", "s">> THEN 0 - 1000
    ELSE IF d = <<"0", "s">> THEN 0
    ELSE IF d = <<"1", "s">> THEN 1000
    ELSE IF d = <<"1", ".", "5", "s">> THEN 1500
    ELSE IF d = <<"3", "0", "s">> THEN 30000
    ELSE IF d = <<"3", "0", ".", "5", "s">> THEN 30500
    ELSE IF d = <<"3", "1", "s">> THEN 31000
    ELSE IF d = <<"4", "5", "s">> THEN 45000
    ELSE 100000

ParseableDurations == DurationStrings \ (UnparseableDurations \cup {Str0})

C18_DurationTruncated ==
    \A r \in Reqs :
        (Validated(r) /\ request[r].query.duration \in ParseableDurations)
        => LET ms == RequestedMs(request[r].query.duration)
           IN  /\ ms < 1000
                  => /\ verr[r] = [Field |-> "duration",
                                   Message |-> "duration must be between 1s and 30s"]
                     /\ sreq[r] = NoStress
                     /\ resp[r].status = StatusBadRequest
                     /\ Launched(r) = {}
               /\ (ms >= 1000 /\ ms < 31000 /\ request[r].query.workers = <<"1">>)
                  => /\ verr[r] = NoError
                     /\ sreq[r].DurationSeconds * 1000 <= ms
                     /\ ms < (sreq[r].DurationSeconds + 1) * 1000
               /\ sreq[r] # NoStress => sreq[r].DurationSeconds * 1000 <= ms

C18_Witness ==
    \E r \in Reqs :
        /\ pc[r] = "done"
        /\ request[r].query.duration = <<"5", "0", "0", "m", "s">>
        /\ resp[r].status = StatusBadRequest
        /\ resp[r].body = <<Body("error", "duration must be between 1s and 30s")>>
        /\ Launched(r) = {}

====
